---- MODULE Spec2Model ----
(***************************************************************************)
(* Model of aws/lambda_function.py: the log-ingestion Lambda handler.      *)
(*                                                                         *)
(* Strings that the code measures, slices or upper-cases (service_name,    *)
(* client_name, level, subject, stream names) are sequences of one-char    *)
(* strings.  A JSON value is a record [t, v]: t is its JSON type and v its *)
(* text (the characters of a string, the decimal digits of a number).      *)
(* Each backend call (CloudWatch Logs, SNS) is one atomic step; the Python *)
(* code between two backend calls is part of the step that follows it.     *)
(***************************************************************************)
EXTENDS Integers, Sequences, FiniteSets, TLC

\* ------------------------------------------------------------------ bounds
NumReq == 2            \* concurrently executing handler instances
MaxInvocations == 2    \* invocations served by the sequential container
MaxTicks == 1          \* midnights that pass during a run

\* ------------------------------------------------- configuration (l.26-29)
LOG_GROUP_PREFIX == <<"/","w","p","w","i","l","s","o","n">>
RETENTION_DAYS == 90
SNS_TOPIC_ARN == "Default_Topic"
SECRET_TOKEN == "default-secret-token"

Reqs == 1..NumReq
None == "None"         \* Python's None where a str is expected

\* ------------------------------------------------------------ text helpers
LowerCase == <<"a","b","c","d","e","f","g","h","i","j","k","l","m",
               "n","o","p","q","r","s","t","u","v","w","x","y","z">>
UpperCase == <<"A","B","C","D","E","F","G","H","I","J","K","L","M",
               "N","O","P","Q","R","S","T","U","V","W","X","Y","Z">>

\* str.upper() on one character
UpperChar(c) ==
    IF \E i \in 1..Len(LowerCase) : LowerCase[i] = c
    THEN UpperCase[CHOOSE i \in 1..Len(LowerCase) : LowerCase[i] = c]
    ELSE c

\* str.upper()
upper(s) == [i \in 1..Len(s) |-> UpperChar(s[i])]

\* Python's s[:n]
Prefix(s, n) == SubSeq(s, 1, IF n < Len(s) THEN n ELSE Len(s))

\* n copies of character c
Rep(c, n) == [i \in 1..n |-> c]

Digit(d) == <<"0","1","2","3","4","5","6","7","8","9">>[d + 1]
Pad2(n) == <<Digit((n \div 10) % 10), Digit(n % 10)>>
Pad4(n) == <<Digit((n \div 1000) % 10), Digit((n \div 100) % 10)>> \o Pad2(n)

\* time.strftime("%Y-%m-%d") on the local calendar date
strftime(t) == Pad4(t.year) \o <<"-">> \o Pad2(t.mon) \o <<"-">> \o Pad2(t.mday)

\* the calendar date one day later (December is the month the runs cross)
NextDay(t) ==
    IF t.mon = 12 /\ t.mday = 31
    THEN [year |-> t.year + 1, mon |-> 1, mday |-> 1]
    ELSE [t EXCEPT !.mday = t.mday + 1]

\* ------------------------------------------------------------- JSON values
Absent == [t |-> "absent", v |-> <<>>]     \* key not in the mapping
JNull  == [t |-> "null", v |-> <<>>]
JStr(s) == [t |-> "str", v |-> s]
JNum(digits) == [t |-> "num", v |-> digits]

\* Python truthiness of the value dict.get returns (an absent key and a JSON
\* null both read as None)
Truthy(x) ==
    CASE x.t = "str" -> x.v # <<>>
      [] x.t = "num" -> x.v # <<"0">>
      [] OTHER -> FALSE

\* Python's str(value)
Str(x) ==
    CASE x.t = "str" -> x.v
      [] x.t = "num" -> x.v
      [] OTHER -> <<"N","o","n","e">>

\* isinstance(value, str)
IsStr(x) == x.t = "str"

\* json.loads(event.get("body", "{}")): the request text is one of
\*   absent     the event has no "body" key: the default "{}" is parsed
\*   invalid    text that is not JSON: json.JSONDecodeError
\*   list, num, null, str   valid JSON whose top level is not an object
\*   object     a JSON object with the three fields the code reads
json_loads(body) ==
    CASE body.kind = "invalid" -> [raises |-> "JSONDecodeError", isdict |-> FALSE,
                                   service_name |-> Absent, client_name |-> Absent,
                                   level |-> Absent]
      [] body.kind = "absent" -> [raises |-> "", isdict |-> TRUE,
                                  service_name |-> Absent, client_name |-> Absent,
                                  level |-> Absent]
      [] body.kind = "object" -> [raises |-> "", isdict |-> TRUE,
                                  service_name |-> body.service_name,
                                  client_name |-> body.client_name,
                                  level |-> body.level]
      [] OTHER -> [raises |-> "", isdict |-> FALSE,
                   service_name |-> Absent, client_name |-> Absent,
                   level |-> Absent]

\* variant: the header name is matched whatever its letter case
HeaderGetAnyCase(headers, name) ==
    IF \E h \in DOMAIN headers : h \in {"x-custom-auth", "X-Custom-Auth", "X-CUSTOM-AUTH"}
    THEN headers[CHOOSE h \in DOMAIN headers :
                   h \in {"x-custom-auth", "X-Custom-Auth", "X-CUSTOM-AUTH"}]
    ELSE None

\* headers.get(name)
HeaderGet(headers, name) ==
    IF name \in DOMAIN headers THEN headers[name] ELSE None

\* variant: any token under the header name is accepted
AuthorizedIfPresent(ev) == "x-custom-auth" \in DOMAIN ev.headers

\* token != SECRET_TOKEN is false (l.161-163)
Authorized(ev) == HeaderGet(ev.headers, "x-custom-auth") = SECRET_TOKEN

\* ----------------------------------------------------------- request data
NoBody == [kind |-> "none", service_name |-> Absent, client_name |-> Absent,
           level |-> Absent]
RawBody(k) == [NoBody EXCEPT !.kind = k]
ObjBody(s, c, l) == [kind |-> "object", service_name |-> s, client_name |-> c,
                     level |-> l]

HeaderNames == {"x-custom-auth", "X-Custom-Auth", "X-CUSTOM-AUTH"}

\* a headers mapping with the one entry name -> token
Header(name, token) == [n \in {name} |-> token]

\* the secret under the lower-case name
GoodHeaders == {Header("x-custom-auth", SECRET_TOKEN)}

\* no auth header, a wrong or empty token, the secret under another spelling
OtherHeaders ==
    {<<>>, Header("x-custom-auth", "wrong"), Header("x-custom-auth", "")}
      \cup {Header(h, SECRET_TOKEN) : h \in HeaderNames \ {"x-custom-auth"}}

ServiceNameChoices ==
    {Absent, JNull, JStr(<<>>), JNum(<<"7">>)}
      \cup {JStr(Rep("s", n)) : n \in {1, 81, 82}}
ClientNameChoices == {Absent, JStr(<<>>), JStr(<<"c">>)}
LevelChoices ==
    {Absent, JNull, JStr(<<>>),
     JStr(<<"i","n","f","o">>), JStr(<<"w","a","r","n">>),
     JStr(<<"e","r","r","o","r">>), JStr(<<"E","r","r","o","r">>),
     JStr(<<"E","R","R","O","R">>), JStr(<<"f","a","t","a","l">>),
     JStr(<<"F","A","T","A","L">>), JStr(<<"E","R","R","O","R","S">>)}

RawBodies ==
    {RawBody(k) : k \in {"absent", "invalid", "list", "num", "null", "str"}}

BodyChoices ==
    RawBodies \cup {ObjBody(s, c, l) : s \in ServiceNameChoices,
                                       c \in ClientNameChoices, l \in LevelChoices}

\* bodies sent with a bad auth header: unparseable, invalid and valid ones
SampleBodies ==
    RawBodies \cup {ObjBody(s, Absent, JStr(<<"E","R","R","O","R">>)) :
                      s \in {Absent, JStr(<<"s">>)}}

\* requests the sequential container is driven with
Events ==
    [headers : GoodHeaders, body : BodyChoices]
      \cup [headers : OtherHeaders, body : SampleBodies]

\* requests of the concurrent run: authenticated and valid, a few destinations
ConcEvents ==
    [headers : GoodHeaders,
     body : {ObjBody(JStr(<<"s">>), c, l) :
               c \in {Absent, JStr(<<>>), JStr(<<"c">>)},
               l \in {JStr(<<"E","R","R","O","R">>)}}]

NoEvent == [headers |-> <<>>, body |-> NoBody]
NoResponse == [statusCode |-> 0, body |-> ""]
NoDate == [year |-> 0, mon |-> 0, mday |-> 0]
NoLocal == [group_name |-> <<>>, stream_name |-> <<>>, date |-> NoDate]

\* ------------------------------------------------------------------- state
VARIABLES
    pc,          \* per handler instance: the backend call it is about to make
    event,       \* per instance: the request being handled
    local,       \* per instance: group_name and client_name of log_to_cloudwatch,
                 \* and the date time.strftime read when it was called
    response,    \* per instance: the LambdaResponse returned
    called,      \* per instance: the functions lambda_handler has invoked
    cwCalls,     \* per instance: CloudWatch Logs API calls issued, in order
    snsCalls,    \* per instance: SNS publish calls issued, in order
    logs,        \* per instance: records written to the Python logger
    logGroups,   \* backend: existing group name -> retentionInDays (0: never set)
    logStreams,  \* backend: existing <<group, stream>> pairs
    logEvents,   \* backend: <<group, stream>> -> instances whose entry was appended
    clock,       \* the local calendar date
    ticks,       \* midnights passed
    invocations  \* invocations started

vars == <<pc, event, local, response, called, cwCalls, snsCalls, logs,
          logGroups, logStreams, logEvents, clock, ticks, invocations>>

handlerVars == <<pc, event, local, response, called, cwCalls, snsCalls, logs>>
backendVars == <<logGroups, logStreams, logEvents>>

Init ==
    /\ pc = [r \in Reqs |-> "idle"]
    /\ event = [r \in Reqs |-> NoEvent]
    /\ local = [r \in Reqs |-> NoLocal]
    /\ response = [r \in Reqs |-> NoResponse]
    /\ called = [r \in Reqs |-> {}]
    /\ cwCalls = [r \in Reqs |-> <<>>]
    /\ snsCalls = [r \in Reqs |-> <<>>]
    /\ logs = [r \in Reqs |-> <<>>]
    /\ logGroups = <<>>
    /\ logStreams = {}
    /\ logEvents = <<>>
    /\ clock = [year |-> 2024, mon |-> 12, mday |-> 31]
    /\ ticks = 0
    /\ invocations = 0

\* ----------------------------------------------------------------- helpers
LambdaResponse(code, text) == [statusCode |-> code, body |-> text]

\* function f extended or overwritten at key k
Put(f, k, x) == [y \in DOMAIN f \cup {k} |-> IF y = k THEN x ELSE f[y]]

\* the parsed body of instance r
LogEntry(r) == json_loads(event[r].body)

\* variant: the isinstance test is left out
TruthyServiceName(entry) == Truthy(entry.service_name)

\* l.172-173: service_name is present, truthy and a str
ValidServiceName(entry) ==
    Truthy(entry.service_name) /\ IsStr(entry.service_name)

\* l.83, 89: group_name
GroupName(entry) == LOG_GROUP_PREFIX \o <<"/">> \o Str(entry.service_name)

\* variant: the stream is always the date
StreamNameByDate(entry, now) == strftime(now)

\* l.84-87: client_name, the stream name
StreamName(entry, now) ==
    IF Truthy(entry.client_name) THEN Str(entry.client_name) ELSE strftime(now)

\* l.116-117: level
Level(entry) ==
    upper(IF entry.level.t = "absent" THEN <<>> ELSE Str(entry.level))

\* variant: the level is compared without upper-casing it
QualifiesExactCase(entry) ==
    entry.level.t = "str"
      /\ entry.level.v \in {<<"E","R","R","O","R">>, <<"F","A","T","A","L">>}

\* l.118: the level qualifies for an alert
Qualifies(entry) ==
    Level(entry) \in {<<"E","R","R","O","R">>, <<"F","A","T","A","L">>}

\* variant: the cut leaves no room for the ellipsis
SubjectCutAt100(entry) ==
    LET subject == Str(entry.service_name) \o <<" ">> \o Level(entry)
                     \o <<" ","N","o","t","i","f","i","c","a","t","i","o","n">>
    IN  IF Len(subject) > 100
        THEN Prefix(subject, 100) \o <<".", ".", ".">>
        ELSE subject

\* l.133-136: the SNS subject
Subject(entry) ==
    LET subject == Str(entry.service_name) \o <<" ">> \o Level(entry)
                     \o <<" ","N","o","t","i","f","i","c","a","t","i","o","n">>
    IN  IF Len(subject) > 100
        THEN Prefix(subject, 97) \o <<".", ".", ".">>
        ELSE subject

\* l.126-131, 138-139: the SNS message, as its lines; a field line is
\* <<title-cased key, str(value)>>
Message(entry) ==
    LET line(key, x) == IF Truthy(x) THEN << <<key, Str(x)>> >> ELSE <<>>
        message_parts == line("Service Name", entry.service_name)
                           \o line("Client Name", entry.client_name)
                           \o line("Level", entry.level)
    IN  IF Truthy(entry.client_name)
        THEN << <<"Client", Str(entry.client_name)>>, <<"", <<>> >> >> \o message_parts
        ELSE message_parts

\* l.105-106 and l.147-148: the except clause's logger.error
LogError(r, msg) == logs' = [logs EXCEPT ![r] = Append(@, <<"ERROR", msg>>)]

\* an API call of instance r on the CloudWatch Logs client
CwCall(r, api) == cwCalls' = [cwCalls EXCEPT ![r] = Append(@, api)]

\* variant: the exception escapes log_to_cloudwatch and reaches l.192
SinkFailedPropagates(r) ==
    /\ LogError(r, "Error processing log")
    /\ response' = [response EXCEPT ![r] = [statusCode |-> 500,
                                             body |-> "Internal server error."]]
    /\ pc' = [pc EXCEPT ![r] = "done"]

\* l.105-106: an exception inside log_to_cloudwatch is logged and swallowed;
\* lambda_handler goes on to notify_error_sns (l.180)
SinkFailed(r) ==
    /\ LogError(r, "Failed to send log to CloudWatch")
    /\ pc' = [pc EXCEPT ![r] = "notify"]
    /\ UNCHANGED response

\* variant: ResourceAlreadyExistsException is handled like any other error
AlreadyExistsRaises(r, next) ==
    /\ LogError(r, "Failed to send log to CloudWatch")
    /\ pc' = [pc EXCEPT ![r] = "notify"]
    /\ UNCHANGED response

\* l.59-60 and l.70-71: ResourceAlreadyExistsException is passed over and
\* log_to_cloudwatch goes on with the call named next
AlreadyExists(r, next) ==
    /\ pc' = [pc EXCEPT ![r] = next]
    /\ UNCHANGED <<logs, response>>

\* a backend call of log_to_cloudwatch succeeded; the call named next follows
Succeeded(r, next) ==
    /\ pc' = [pc EXCEPT ![r] = next]
    /\ UNCHANGED <<logs, response>>

\* ----------------------------------------------------------------- actions
\* the runtime hands a request to instance r
Invoke(r, evs, limit) ==
    /\ pc[r] = "idle"
    /\ invocations < limit
    /\ \E ev \in evs : event' = [event EXCEPT ![r] = ev]
    /\ pc' = [pc EXCEPT ![r] = "handler"]
    /\ invocations' = invocations + 1
    /\ UNCHANGED <<local, response, called, cwCalls, snsCalls, logs,
                   backendVars, clock, ticks>>

\* lambda_handler l.158-179 and log_to_cloudwatch l.82-89: everything up to
\* the first backend call
Handler(r) ==
    /\ pc[r] = "handler"
    /\ LET entry == LogEntry(r) IN
       IF ~Authorized(event[r])
       THEN /\ response' = [response EXCEPT ![r] = LambdaResponse(403, "Unauthorized")]
            /\ logs' = [logs EXCEPT ![r] = Append(@, <<"INFO", "Denied unauthorized request">>)]
            /\ pc' = [pc EXCEPT ![r] = "done"]
            /\ UNCHANGED <<local, called>>
       ELSE IF entry.raises = "JSONDecodeError"
       THEN /\ response' = [response EXCEPT ![r] = LambdaResponse(400, "Invalid JSON format.")]
            /\ LogError(r, "Failed to parse request body.")
            /\ pc' = [pc EXCEPT ![r] = "done"]
            /\ UNCHANGED <<local, called>>
       ELSE IF ~entry.isdict
       THEN \* body.get raises AttributeError, caught by l.192
            /\ response' = [response EXCEPT ![r] = LambdaResponse(500, "Internal server error.")]
            /\ LogError(r, "Error processing log")
            /\ pc' = [pc EXCEPT ![r] = "done"]
            /\ UNCHANGED <<local, called>>
       ELSE IF ~ValidServiceName(entry)
       THEN /\ response' = [response EXCEPT ![r] =
                              LambdaResponse(400, "Missing required field: service_name")]
            /\ pc' = [pc EXCEPT ![r] = "done"]
            /\ UNCHANGED <<local, called, logs>>
       ELSE /\ called' = [called EXCEPT ![r] = @ \cup {"log_to_cloudwatch"}]
            /\ local' = [local EXCEPT ![r] =
                           [group_name |-> GroupName(entry),
                            stream_name |-> StreamName(entry, clock),
                            date |-> IF Truthy(entry.client_name)
                                     THEN NoDate ELSE clock]]
            /\ pc' = [pc EXCEPT ![r] = "create_log_group"]
            /\ UNCHANGED <<response, logs>>
    /\ UNCHANGED <<event, cwCalls, snsCalls, backendVars, clock, ticks, invocations>>

\* ensure_log_group l.53-54, 59-60.  faults: whether the backend may answer
\* with an error other than ResourceAlreadyExistsException
CreateLogGroup(r, faults) ==
    /\ pc[r] = "create_log_group"
    /\ CwCall(r, "create_log_group")
    /\ LET g == local[r].group_name IN
       \E fault \in faults :
          IF fault
          THEN SinkFailed(r) /\ UNCHANGED logGroups
          ELSE IF g \in DOMAIN logGroups
          THEN \* put_retention_policy is skipped
               AlreadyExists(r, "create_log_stream") /\ UNCHANGED logGroups
          ELSE /\ logGroups' = Put(logGroups, g, 0)
               /\ Succeeded(r, "put_retention_policy")
    /\ UNCHANGED <<event, local, called, snsCalls, logStreams, logEvents,
                   clock, ticks, invocations>>

\* ensure_log_group l.55-58
PutRetentionPolicy(r, faults) ==
    /\ pc[r] = "put_retention_policy"
    /\ CwCall(r, "put_retention_policy")
    /\ LET g == local[r].group_name IN
       \E fault \in faults :
          IF fault \/ g \notin DOMAIN logGroups
          THEN SinkFailed(r) /\ UNCHANGED logGroups
          ELSE /\ logGroups' = Put(logGroups, g, RETENTION_DAYS)
               /\ Succeeded(r, "create_log_stream")
    /\ UNCHANGED <<event, local, called, snsCalls, logStreams, logEvents,
                   clock, ticks, invocations>>

\* ensure_log_stream l.63-71
CreateLogStream(r, faults) ==
    /\ pc[r] = "create_log_stream"
    /\ CwCall(r, "create_log_stream")
    /\ LET g == local[r].group_name
           s == local[r].stream_name IN
       \E fault \in faults :
          IF fault \/ g \notin DOMAIN logGroups
          THEN SinkFailed(r) /\ UNCHANGED <<logStreams, logEvents>>
          ELSE IF <<g, s>> \in logStreams
          THEN AlreadyExists(r, "put_log_events") /\ UNCHANGED <<logStreams, logEvents>>
          ELSE /\ logStreams' = logStreams \cup {<<g, s>>}
               /\ logEvents' = Put(logEvents, <<g, s>>, <<>>)
               /\ Succeeded(r, "put_log_events")
    /\ UNCHANGED <<event, local, called, snsCalls, logGroups,
                   clock, ticks, invocations>>

\* log_to_cloudwatch l.94-103
PutLogEvents(r, faults) ==
    /\ pc[r] = "put_log_events"
    /\ CwCall(r, "put_log_events")
    /\ LET g == local[r].group_name
           s == local[r].stream_name IN
       \E fault \in faults :
          IF fault \/ <<g, s>> \notin logStreams
          THEN SinkFailed(r) /\ UNCHANGED logEvents
          ELSE /\ logEvents' = [logEvents EXCEPT ![<<g, s>>] = Append(@, r)]
               /\ Succeeded(r, "notify")
    /\ UNCHANGED <<event, local, called, snsCalls, logGroups, logStreams,
                   clock, ticks, invocations>>

\* notify_error_sns l.116-148, then lambda_handler's return l.182-185
NotifyErrorSns(r, faults) ==
    /\ pc[r] = "notify"
    /\ called' = [called EXCEPT ![r] = @ \cup {"notify_error_sns"}]
    /\ LET entry == LogEntry(r) IN
       IF ~Qualifies(entry)
       THEN UNCHANGED <<snsCalls, logs>>
       ELSE /\ snsCalls' = [snsCalls EXCEPT ![r] =
                              Append(@, [TopicArn |-> SNS_TOPIC_ARN,
                                         Subject |-> Subject(entry),
                                         Message |-> Message(entry)])]
            /\ \E fault \in faults :
                  IF fault
                  THEN LogError(r, "Error sending SNS message")
                  ELSE UNCHANGED logs
    /\ response' = [response EXCEPT ![r] = LambdaResponse(200, "Log saved to CloudWatch.")]
    /\ pc' = [pc EXCEPT ![r] = "done"]
    /\ UNCHANGED <<event, local, cwCalls, backendVars, clock, ticks, invocations>>

\* the invocation is over; the container is free for the next one
Return(r) ==
    /\ pc[r] = "done"
    /\ pc' = [pc EXCEPT ![r] = "idle"]
    /\ event' = [event EXCEPT ![r] = NoEvent]
    /\ local' = [local EXCEPT ![r] = NoLocal]
    /\ response' = [response EXCEPT ![r] = NoResponse]
    /\ called' = [called EXCEPT ![r] = {}]
    /\ cwCalls' = [cwCalls EXCEPT ![r] = <<>>]
    /\ snsCalls' = [snsCalls EXCEPT ![r] = <<>>]
    /\ logs' = [logs EXCEPT ![r] = <<>>]
    /\ UNCHANGED <<backendVars, clock, ticks, invocations>>

\* midnight passes
Tick ==
    /\ ticks < MaxTicks
    /\ ticks' = ticks + 1
    /\ clock' = NextDay(clock)
    /\ UNCHANGED <<handlerVars, backendVars, invocations>>

\* ---------------------------------------------------------- specifications
\* One container serving requests one after another, all on one day; backend
\* calls may fail.
Next ==
    \/ Invoke(1, Events, MaxInvocations)
    \/ Handler(1)
    \/ CreateLogGroup(1, BOOLEAN)
    \/ PutRetentionPolicy(1, BOOLEAN)
    \/ CreateLogStream(1, BOOLEAN)
    \/ PutLogEvents(1, BOOLEAN)
    \/ NotifyErrorSns(1, BOOLEAN)
    \/ Return(1)

Spec == Init /\ [][Next]_vars

\* NumReq containers each serving one valid request, interleaved at every
\* backend call; the backend rejects a create only with "already exists".
NextConc ==
    \/ \E r \in Reqs :
         \/ Invoke(r, ConcEvents, NumReq)
         \/ Handler(r)
         \/ CreateLogGroup(r, {FALSE})
         \/ PutRetentionPolicy(r, {FALSE})
         \/ CreateLogStream(r, {FALSE})
         \/ PutLogEvents(r, {FALSE})
         \/ NotifyErrorSns(r, {FALSE})
    \/ Tick

SpecConc == Init /\ [][NextConc]_vars

\* ------------------------------------------------------ vocabulary of claims
Finished(r) == pc[r] = "done"

\* the request carries the shared secret under the lower-case header name
HasSecret(r) ==
    /\ "x-custom-auth" \in DOMAIN event[r].headers
    /\ event[r].headers["x-custom-auth"] = SECRET_TOKEN

\* the request carries the shared secret under some spelling of the name
HasSecretAnyCase(r) ==
    \E h \in HeaderNames :
        h \in DOMAIN event[r].headers /\ event[r].headers[h] = SECRET_TOKEN

NoBackendCall(r) == cwCalls[r] = <<>> /\ snsCalls[r] = <<>>

\* the body is a JSON object (an absent body is "{}")
IsObject(r) == event[r].body.kind \in {"absent", "object"}

\* the body has a non-empty string service_name
GoodName(r) ==
    /\ event[r].body.kind = "object"
    /\ event[r].body.service_name.t = "str"
    /\ event[r].body.service_name.v # <<>>

ValidRequest(r) == HasSecret(r) /\ GoodName(r)

\* s spells the word given in lower and upper case, in any mix of cases
CaseMatch(s, lower, up) ==
    /\ Len(s) = Len(lower)
    /\ \A i \in 1..Len(s) : s[i] \in {lower[i], up[i]}

IsError(s) == CaseMatch(s, <<"e","r","r","o","r">>, <<"E","R","R","O","R">>)
IsFatal(s) == CaseMatch(s, <<"f","a","t","a","l">>, <<"F","A","T","A","L">>)

\* the record's level, upper-cased, is ERROR or FATAL
AlertLevel(r) ==
    /\ event[r].body.level.t = "str"
    /\ IsError(event[r].body.level.v) \/ IsFatal(event[r].body.level.v)

Failed(r, msg) == \E i \in 1..Len(logs[r]) : logs[r][i] = <<"ERROR", msg>>

\* --------------------------------------------------------------------- C1
\* C1: a request whose x-custom-auth value is missing or differs from
\* SECRET_TOKEN is answered 403 "Unauthorized" whatever its body is, neither
\* log_to_cloudwatch nor notify_error_sns is entered, and no CloudWatch or SNS
\* call is made.
C1_UnauthorizedIs403 ==
    \A r \in Reqs :
        (pc[r] # "idle" /\ ~HasSecret(r)) =>
            /\ pc[r] \in {"handler", "done"}
            /\ called[r] = {}
            /\ NoBackendCall(r)
            /\ Finished(r) => response[r] = [statusCode |-> 403, body |-> "Unauthorized"]

C1_Witness ==
    \E r \in Reqs :
        /\ Finished(r)
        /\ ~HasSecret(r)
        /\ event[r].body.kind = "invalid"
        /\ response[r].statusCode = 403
        /\ DOMAIN logGroups # {}

\* --------------------------------------------------------------------- C2
\* C2: an authenticated request whose record has no service_name, or an empty
\* or non-string one, is answered 400 "Missing required field: service_name"
\* and neither log_to_cloudwatch nor notify_error_sns is invoked.
C2_MissingServiceNameIs400 ==
    \A r \in Reqs :
        (HasSecret(r) /\ IsObject(r) /\ ~GoodName(r) /\ pc[r] # "handler") =>
            /\ Finished(r)
            /\ response[r] = [statusCode |-> 400,
                              body |-> "Missing required field: service_name"]
            /\ called[r] = {}
            /\ NoBackendCall(r)

C2_Witness ==
    \E r \in Reqs :
        /\ Finished(r)
        /\ HasSecret(r)
        /\ event[r].body.kind = "object"
        /\ event[r].body.service_name.t = "num"
        /\ response[r].statusCode = 400

\* --------------------------------------------------------------------- C3
\* C3: an authenticated request whose body is not a JSON object (invalid JSON,
\* or a JSON list, number, null or string) is answered 400 with the
\* invalid-format error and makes no backend call.
C3_NonObjectBodyIs400 ==
    \A r \in Reqs :
        (HasSecret(r) /\ ~IsObject(r) /\ Finished(r)) =>
            /\ response[r] = [statusCode |-> 400, body |-> "Invalid JSON format."]
            /\ NoBackendCall(r)

\* --------------------------------------------------------------------- C4
\* C4: an authenticated request with a non-empty string service_name is
\* answered 200 whatever the backends do: notify_error_sns has been invoked
\* when the handler returns, also after a CloudWatch failure, it has published
\* when the level qualifies, and no status other than 200 is ever set.
C4_ValidRequestIs200 ==
    \A r \in Reqs :
        ValidRequest(r) =>
            /\ response[r].statusCode \in {0, 200}
            /\ Finished(r) =>
                 /\ response[r] = [statusCode |-> 200, body |-> "Log saved to CloudWatch."]
                 /\ called[r] = {"log_to_cloudwatch", "notify_error_sns"}
                 /\ AlertLevel(r) => Len(snsCalls[r]) = 1

C4_Witness ==
    \E r \in Reqs :
        /\ Finished(r)
        /\ ValidRequest(r)
        /\ Failed(r, "Failed to send log to CloudWatch")
        /\ Failed(r, "Error sending SNS message")
        /\ Len(snsCalls[r]) = 1
        /\ response[r].statusCode = 200

\* --------------------------------------------------------------------- C5
\* C5 as claimed: a request that carries the secret under any letter-case
\* variant of the header name is not answered 403.
C5_AnyCaseAuthenticates ==
    \A r \in Reqs :
        (Finished(r) /\ HasSecretAnyCase(r)) => response[r].statusCode # 403

\* C5 as the code has it: the header is looked up under the exact lower-case
\* name x-custom-auth; a request is answered 403 unless it carries the secret
\* under that name, also when it carries it under another spelling.
C5_LowerCaseOnly ==
    \A r \in Reqs :
        Finished(r) => (response[r].statusCode = 403 <=> ~HasSecret(r))

C5_Witness ==
    \E r \in Reqs :
        /\ Finished(r)
        /\ HasSecretAnyCase(r)
        /\ ~HasSecret(r)
        /\ response[r].statusCode = 403

\* --------------------------------------------------------------------- C6
\* C6: notify_error_sns publishes if and only if the level, upper-cased, is
\* ERROR or FATAL: no SNS call for any other level, and for a qualifying level
\* exactly one publish per request, to SNS_TOPIC_ARN, also when publish fails.
C6_PublishIffErrorOrFatal ==
    \A r \in Reqs :
        /\ Len(snsCalls[r]) <= 1
        /\ ~AlertLevel(r) => snsCalls[r] = <<>>
        /\ \A i \in 1..Len(snsCalls[r]) : snsCalls[r][i].TopicArn = SNS_TOPIC_ARN
        /\ ("notify_error_sns" \in called[r] /\ AlertLevel(r)) => Len(snsCalls[r]) = 1

C6_Witness ==
    \E r \in Reqs :
        /\ Finished(r)
        /\ event[r].body.level = JStr(<<"e","r","r","o","r">>)
        /\ Len(snsCalls[r]) = 1
        /\ Failed(r, "Error sending SNS message")

\* --------------------------------------------------------------------- C7
\* log_to_cloudwatch has derived the destination of instance r
Routed(r) == pc[r] \notin {"idle", "handler"}

\* client_name is present and non-empty
HasClient(r) ==
    event[r].body.client_name.t = "str" /\ event[r].body.client_name.v # <<>>

SameFields(r1, r2) ==
    /\ event[r1].body.service_name = event[r2].body.service_name
    /\ event[r1].body.client_name = event[r2].body.client_name

Destination(r) == <<local[r].group_name, local[r].stream_name>>

\* C7 as claimed: two valid requests with the same service_name and the same
\* client_name (both absent or empty included), handled at any two times, get
\* the same (group, stream).
C7_SameFieldsSameDestination ==
    \A r1, r2 \in Reqs :
        (Routed(r1) /\ Routed(r2) /\ SameFields(r1, r2)) =>
            Destination(r1) = Destination(r2)

\* C7 as the code has it: group = LOG_GROUP_PREFIX/service_name; stream =
\* client_name when present and non-empty, otherwise the date on which the
\* request is handled.  Two valid requests with the same service_name and the
\* same non-empty client_name get the same (group, stream) at any two times;
\* with client_name absent or empty they get the same group, and the same
\* stream exactly when they are handled on the same date.
C7_DestinationRule ==
    \A r1, r2 \in Reqs :
        (Routed(r1) /\ Routed(r2) /\ SameFields(r1, r2)) =>
            /\ local[r1].group_name
                 = LOG_GROUP_PREFIX \o <<"/">> \o event[r1].body.service_name.v
            /\ local[r1].group_name = local[r2].group_name
            /\ HasClient(r1) =>
                 /\ local[r1].stream_name = event[r1].body.client_name.v
                 /\ Destination(r1) = Destination(r2)
            /\ ~HasClient(r1) =>
                 /\ local[r1].stream_name = strftime(local[r1].date)
                 /\ Len(local[r1].stream_name) = 10
                 /\ (local[r1].stream_name = local[r2].stream_name
                       <=> local[r1].date = local[r2].date)

C7_Witness ==
    \E r1, r2 \in Reqs :
        /\ Finished(r1) /\ Finished(r2)
        /\ SameFields(r1, r2)
        /\ event[r1].body.client_name = Absent
        /\ local[r1].stream_name = <<"2","0","2","4","-","1","2","-","3","1">>
        /\ local[r2].stream_name = <<"2","0","2","5","-","0","1","-","0","1">>

\* --------------------------------------------------------------------- C8
\* the subject before truncation, for a level that qualifies
FullSubject(r) ==
    event[r].body.service_name.v \o <<" ">>
      \o (IF IsError(event[r].body.level.v)
          THEN <<"E","R","R","O","R">> ELSE <<"F","A","T","A","L">>)
      \o <<" ","N","o","t","i","f","i","c","a","t","i","o","n">>

\* C8: the subject passed to publish is "<service_name> <LEVEL> Notification"
\* when that has at most 100 characters and otherwise its first 97 characters
\* followed by "..."; it never exceeds 100 characters and is exactly 100 long,
\* ending in "...", whenever it was truncated.
C8_SubjectAtMost100 ==
    \A r \in Reqs : \A i \in 1..Len(snsCalls[r]) :
        LET subject == snsCalls[r][i].Subject
            full == FullSubject(r)
        IN  /\ Len(subject) <= 100
            /\ Len(full) <= 100 => subject = full
            /\ Len(full) > 100 =>
                 /\ Len(subject) = 100
                 /\ SubSeq(subject, 1, 97) = SubSeq(full, 1, 97)
                 /\ SubSeq(subject, 98, 100) = <<".", ".", ".">>

C8_Witness ==
    \E r \in Reqs :
        /\ Len(snsCalls[r]) = 1
        /\ Len(FullSubject(r)) = 101
        /\ Len(snsCalls[r][1].Subject) = 100
        /\ snsCalls[r][1].Subject[100] = "."

\* --------------------------------------------------------------------- C9
\* call a occurs in calls, and before every occurrence of call b
Precedes(calls, a, b) ==
    \E i \in 1..Len(calls) :
        /\ calls[i] = a
        /\ \A j \in 1..Len(calls) : calls[j] = b => i < j

\* entries of instance r in the stream st
EntriesOf(r, st) ==
    Cardinality({i \in 1..Len(logEvents[st]) : logEvents[st][i] = r})

\* C9: with a backend that rejects a create only with "already exists", under
\* any interleaving every request issues put_log_events only after its
\* create_log_group and create_log_stream, when group and stream exist, to the
\* stream it ensured, and appends exactly one entry; when all requests are
\* finished every response is 200 and each stream holds one entry per request
\* routed to it (N entries when all N share a destination).
C9_OneEntryPerRequest ==
    /\ \A r \in Reqs :
         /\ pc[r] = "put_log_events" =>
              /\ local[r].group_name \in DOMAIN logGroups
              /\ Destination(r) \in logStreams
         /\ \A st \in logStreams :
              EntriesOf(r, st) = IF pc[r] \in {"notify", "done"} /\ st = Destination(r)
                                 THEN 1 ELSE 0
         /\ pc[r] \in {"notify", "done"} =>
              /\ Destination(r) \in logStreams
              /\ Precedes(cwCalls[r], "create_log_group", "put_log_events")
              /\ Precedes(cwCalls[r], "create_log_stream", "put_log_events")
              /\ cwCalls[r][Len(cwCalls[r])] = "put_log_events"
         /\ Finished(r) => response[r].statusCode = 200
    /\ (\A r \in Reqs : Finished(r)) =>
         \A st \in logStreams :
            Len(logEvents[st]) = Cardinality({r \in Reqs : Destination(r) = st})

C9_Witness ==
    /\ \A r \in Reqs : Finished(r) /\ response[r].statusCode = 200
    /\ \E st \in logStreams : Len(logEvents[st]) = NumReq
    /\ \E r \in Reqs : cwCalls[r] = <<"create_log_group", "create_log_stream",
                                      "put_log_events">>

\* -------------------------------------------------------------------- C10
\* C10: whenever ensure_log_group(g) has returned without raising, group g
\* exists with its retention policy set to RETENTION_DAYS, so no entry is
\* appended to a group without a retention policy.
C10_GroupHasRetention ==
    \A r \in Reqs :
        pc[r] \in {"create_log_stream", "put_log_events"} =>
            /\ local[r].group_name \in DOMAIN logGroups
            /\ logGroups[local[r].group_name] = RETENTION_DAYS
====
